---- MODULE Spec2Model ----
(***************************************************************************)
(* State-machine model of the simulation recipes of pyMPB                  *)
(* (src/phc_simulations.py): TriHoles2D, TriHolesSlab3D and the two        *)
(* waveguide recipes that first make sure the projected-bands references   *)
(* exist and then build the waveguide job.                                 *)
(*                                                                         *)
(* Strings the code inspects or concatenates are sequences of tokens       *)
(* (runmode is a sequence of characters, a job name a sequence of name     *)
(* fragments and decimal digits), a path is a sequence of names, and a     *)
(* float the code formats is an exact rational <<numerator, denominator>>. *)
(***************************************************************************)
EXTENDS Integers, Sequences, FiniteSets, TLC

\* ------------------------------------------------------------- bounds

\* largest k_steps a waveguide build is called with
MaxKSteps == 2

\* ------------------------------------------------------- inputs, fixed

\* the processes that may run a build; Spec runs the builds of MainProc
\* one after the other
Procs == {"A", "B"}
MainProc == "A"

material == "SiN"
\* radius and thickness in units of 1e-4 lattice constants (0.38 and 0.8)
radius10k == 3800
thickness10k == 8000

\* run modes, as character sequences (the code tests runmode.startswith)
RM_NONE == <<>>
RM_CTL == <<"c", "t", "l">>
RM_SIM == <<"s", "i", "m">>
RM_POSTPC == <<"p", "o", "s", "t", "p", "c">>
RM_DISPLAY == <<"d", "i", "s", "p", "l", "a", "y">>
ValidRunModes == {RM_NONE, RM_CTL, RM_SIM, RM_POSTPC, RM_DISPLAY}
InvalidRunModes == {<<"x">>, <<"s", "x">>}
RunModes == ValidRunModes \cup InvalidRunModes

Families == {"2D", "3D"}
BulkRecipe(fam) == IF fam = "2D" THEN "TriHoles2D" ELSE "TriHolesSlab3D"
WaveguideRecipe(fam) ==
    IF fam = "2D" THEN "TriHoles2D_Waveguide" ELSE "TriHolesSlab3D_Waveguide"
IsWaveguide(recipe) ==
    recipe \in {"TriHoles2D_Waveguide", "TriHolesSlab3D_Waveguide"}
\* the mode values a waveguide build is called with
WaveguideModes(fam) == IF fam = "2D" THEN {"te", "tm"} ELSE {"te", "zeven"}
\* the default modes of the bulk recipes
DefaultModes(fam) == IF fam = "2D" THEN <<"te", "tm">> ELSE <<"zeven", "zodd">>

\* ------------------------------------------------ numbers and formatting

RatMul(a, b) == <<a[1] * b[1], a[2] * b[2]>>
RatAdd(a, b) == <<a[1] * b[2] + b[1] * a[2], a[2] * b[2]>>
RatEq(a, b) == a[1] * b[2] = b[1] * a[2]

\* round to the nearest integer, halves to the even neighbour (what the
\* 'f' presentation type with precision 0 does to a non-negative value)
RoundHalfEven(num, den) ==
    LET q == num \div den
        r == num % den
    IN  IF 2 * r < den THEN q
        ELSE IF 2 * r > den THEN q + 1
        ELSE IF q % 2 = 0 THEN q ELSE q + 1

DigitChar == <<"0", "1", "2", "3", "4", "5", "6", "7", "8", "9">>

RECURSIVE DigitsOf(_)
DigitsOf(n) ==
    IF n < 10 THEN <<DigitChar[n + 1]>>
    ELSE DigitsOf(n \div 10) \o <<DigitChar[(n % 10) + 1]>>

RECURSIVE ZeroPad(_, _)
ZeroPad(s, width) == IF Len(s) >= width THEN s ELSE ZeroPad(<<"0">> \o s, width)

\* '{:0<width>.0f}'.format(num / den)
FormatF0(num, den, width) == ZeroPad(DigitsOf(RoundHalfEven(num, den)), width)

\* a formatting that cuts the fraction off instead of rounding
FormatMilli_truncate(x10k) == ZeroPad(DigitsOf(x10k \div 10), 3)

\* 'r{1:03.0f}'.format(radius * 1000), radius given in 1e-4 units
FormatMilli(x10k) == FormatF0(x10k * 1000, 10000, 3)

\* np.linspace(0, 0.5, num=n, endpoint=True) as exact rationals
linspace(n) ==
    [j \in 1..n |-> IF n = 1 THEN <<0, 1>> ELSE <<j - 1, 2 * (n - 1)>>]

\* ------------------------------------------------------- names and paths

\* the characters of the fragments names are made of
CharsOf(token) ==
    CASE token = "TriHoles2D_" ->
           <<"T", "r", "i", "H", "o", "l", "e", "s", "2", "D", "_">>
      [] token = "TriHolesSlab_" ->
           <<"T", "r", "i", "H", "o", "l", "e", "s", "S", "l", "a", "b", "_">>
      [] token = "TriHoles2D_W1_" ->
           <<"T", "r", "i", "H", "o", "l", "e", "s", "2", "D", "_", "W", "1", "_">>
      [] token = "TriHolesSlab_W1_" ->
           <<"T", "r", "i", "H", "o", "l", "e", "s", "S", "l", "a", "b", "_",
             "W", "1", "_">>
      [] token = "SiN" -> <<"S", "i", "N">>
      [] token = "Si" -> <<"S", "i">>
      [] token = "_r" -> <<"_", "r">>
      [] token = "_t" -> <<"_", "t">>
      [] token = "_projk" -> <<"_", "p", "r", "o", "j", "k">>
      [] token = "_ranges.csv" ->
           <<"_", "r", "a", "n", "g", "e", "s", ".", "c", "s", "v">>
      [] token = "te" -> <<"t", "e">>
      [] token = "tm" -> <<"t", "m">>
      [] token = "zeven" -> <<"z", "e", "v", "e", "n">>
      [] token = "zodd" -> <<"z", "o", "d", "d">>
      [] OTHER -> <<token>>

\* the string a name stands for, character by character
RECURSIVE StringOf(_)
StringOf(name) ==
    IF name = <<>> THEN <<>> ELSE CharsOf(name[1]) \o StringOf(Tail(name))

startswith(s, c) == Len(s) >= 1 /\ s[1] = c

\* path.join(folder, name)
PathJoin(folder, name) == Append(folder, name)

IsUnder(file, folder) ==
    /\ Len(file) > Len(folder)
    /\ SubSeq(file, 1, Len(folder)) = folder

curdir == <<>>

projected_bands_folder == <<<<"..">>, <<"projected_bands_repo">>>>

\* jobname of the bulk recipes
BulkJobname(fam, mat, r10k, t10k) ==
    IF fam = "2D"
    THEN <<"TriHoles2D_", mat, "_r">> \o FormatMilli(r10k)
    ELSE <<"TriHolesSlab_", mat, "_r">> \o FormatMilli(r10k)
             \o <<"_t">> \o FormatMilli(t10k)

\* unperturbed_jobname of the waveguide recipes
UnperturbedJobname(fam, mat, r10k, t10k) ==
    IF fam = "2D"
    THEN <<"TriHoles2D_", mat, "_r">> \o FormatMilli(r10k)
    ELSE <<"TriHolesSlab_", mat, "_r">> \o FormatMilli(r10k)
             \o <<"_t">> \o FormatMilli(t10k)

\* a waveguide name that lacks the 'W1_' part
WaveguideJobname_noW1(fam, mat, r10k, t10k) ==
    IF fam = "2D"
    THEN <<"TriHoles2D_", mat, "_r">> \o FormatMilli(r10k)
    ELSE <<"TriHolesSlab_", mat, "_r">> \o FormatMilli(r10k)
             \o <<"_t">> \o FormatMilli(t10k)

\* jobname of the waveguide recipes
WaveguideJobname(fam, mat, r10k, t10k) ==
    IF fam = "2D"
    THEN <<"TriHoles2D_W1_", mat, "_r">> \o FormatMilli(r10k)
    ELSE <<"TriHolesSlab_W1_", mat, "_r">> \o FormatMilli(r10k)
             \o <<"_t">> \o FormatMilli(t10k)

\* repo = abspath(join(curdir, projected_bands_folder, unperturbed_jobname))
Repo(fam) ==
    PathJoin(curdir \o projected_bands_folder,
             UnperturbedJobname(fam, material, radius10k, thickness10k))

\* a working folder named without the suffix
BulkWorkdir_noSuffix(containing_folder, jobname, job_name_suffix) ==
    PathJoin(containing_folder, jobname)

\* work_in_subfolder=path.join(containing_folder, jobname + job_name_suffix)
BulkWorkdir(containing_folder, jobname, job_name_suffix) ==
    PathJoin(containing_folder, jobname \o job_name_suffix)

\* a Simulation given no work_in_subfolder works in <curdir>/<jobname>
DefaultWorkdir(jobname) == PathJoin(curdir, jobname)

\* a suffix that does not depend on the k-value
JobnameSuffix_fixed(ky) == <<"_projk">> \o FormatF0(0, 1, 6)

\* jobname_suffix = '_projk{0:06.0f}'.format(ky*1e6)
JobnameSuffix(ky) == <<"_projk">> \o FormatF0(ky[1] * 1000000, ky[2], 6)

\* range_file_name = join(repo, jobname, jobname + '_' + mode + '_ranges.csv')
RangeFileName(repo, jobname, mode) ==
    PathJoin(PathJoin(repo, jobname), jobname \o <<"_", mode, "_ranges.csv">>)

\* a check that ignores the cache
NeedsSimulation_always(files, range_file_name) == TRUE

\* a check that trusts the cache blindly
NeedsSimulation_never(files, range_file_name) == FALSE

\* if not path.isfile(range_file_name)
NeedsSimulation(files, range_file_name) == range_file_name \notin files

\* an insertion at the front of the list
AppendFolder_front(list, repo, jobname) == <<PathJoin(repo, jobname)>> \o list

\* project_bands_list.append(path.join(repo, jobname))
AppendFolder(list, repo, jobname) == Append(list, PathJoin(repo, jobname))

\* a clearing rule that forgets the 'ctl' mode
ClearSubfolder_onlySim(runmode) == startswith(runmode, "s")

\* clear_subfolder=runmode.startswith('s') or runmode.startswith('c')
ClearSubfolder(runmode) == startswith(runmode, "s") \/ startswith(runmode, "c")

\* both waveguide recipes always simulating a missing reference
SubRunmode_alwaysSim(fam, runmode) == RM_SIM

\* the runmode handed to the bulk recipe for a missing reference
SubRunmode(fam, runmode) ==
    IF fam = "2D" THEN RM_SIM
    ELSE IF startswith(runmode, "s") THEN RM_SIM ELSE RM_NONE

\* rectBZ_K = (0.25, -0.25), triBZ_M = (0.5, 0.5)
rectBZ_K == <<<<1, 4>>, <<-1, 4>>>>
triBZ_M == <<<<1, 2>>, <<1, 2>>>>
Scale(v, s) == [c \in 1..Len(v) |-> RatMul(v[c], s)]
VecAdd(v, w) == [c \in 1..Len(v) |-> RatAdd(v[c], w[c])]

\* a reference path with the default interpolation of the bulk recipes
ReferenceKSpace_default11(ky) ==
    [kind |-> "custom",
     points_list |-> <<Scale(Scale(rectBZ_K, ky), <<2, 1>>),
                       VecAdd(Scale(Scale(rectBZ_K, ky), <<2, 1>>), triBZ_M)>>,
     k_interpolation |-> 11]

\* KSpace(points_list=[rectBZ_K*ky*2, rectBZ_K*ky*2 + triBZ_M],
\*        k_interpolation=15)
ReferenceKSpace(ky) ==
    [kind |-> "custom",
     points_list |-> <<Scale(Scale(rectBZ_K, ky), <<2, 1>>),
                       VecAdd(Scale(Scale(rectBZ_K, ky), <<2, 1>>), triBZ_M)>>,
     k_interpolation |-> 15]

\* the high-symmetry points Gamma, M, K and Gamma again
TriangularVertices ==
    <<<<<<0, 1>>, <<0, 1>>, <<0, 1>>>>,
      <<<<1, 2>>, <<0, 1>>, <<0, 1>>>>,
      <<<<1, 3>>, <<1, 3>>, <<0, 1>>>>,
      <<<<0, 1>>, <<0, 1>>, <<0, 1>>>>>>

KSpaceTriangular(k_interpolation) ==
    [kind |-> "triangular", points_list |-> TriangularVertices,
     k_interpolation |-> k_interpolation]

\* KSpaceTriangular(k_interpolation=k_interpolation), k_interpolation=11
DefaultKSpace == KSpaceTriangular(11)

\* a bulk recipe that ignores its k_interpolation argument
BulkKSpace_ignoresInterpolation(has_custom, custom_k_space, k_interpolation) ==
    IF has_custom THEN custom_k_space ELSE DefaultKSpace

\* if isinstance(custom_k_space, KSpace): kspace = custom_k_space
\* else: kspace = KSpaceTriangular(k_interpolation=k_interpolation)
BulkKSpace(has_custom, custom_k_space, k_interpolation) ==
    IF has_custom THEN custom_k_space ELSE KSpaceTriangular(k_interpolation)

\* a k-point given with 1, 2 or 3 coordinates; missing ones are zero
Vec3(point) == [c \in 1..3 |-> IF c <= Len(point) THEN point[c] ELSE <<0, 1>>]

RatSub(a, b) == <<a[1] * b[2] - b[1] * a[2], a[2] * b[2]>>

\* the n evenly spaced points strictly between a and b
Between(a, b, n) ==
    [j \in 1..n |->
        [c \in 1..3 |-> RatAdd(a[c], RatMul(<<j, n + 1>>, RatSub(b[c], a[c])))]]

\* every point of the list followed by the n points between it and the next
RECURSIVE Interpolate(_, _)
Interpolate(list, n) ==
    IF Len(list) <= 1 THEN list
    ELSE <<list[1]>> \o Between(list[1], list[2], n) \o Interpolate(Tail(list), n)

\* kspace.points()
Points(kspace) ==
    Interpolate([e \in 1..Len(kspace.points_list) |-> Vec3(kspace.points_list[e])],
                kspace.k_interpolation)

\* ---------------------------------------------------------------- state

VARIABLES
    family,      \* which pair of recipes the run uses: "2D" or "3D"
    repo_dirs,   \* directories that exist under projected_bands_folder
    repo_files,  \* result marker files that exist under projected_bands_folder
    bld,         \* per process: the build (recipe call) in progress
    named,       \* the last two job namings, for the naming specification
    calc         \* the last script, k-path or geometry a recipe computed

vars == <<family, repo_dirs, repo_files, bld, named, calc>>

NoArgs ==
    [runmode |-> RM_NONE, containing_folder |-> <<>>, job_name_suffix |-> <<>>,
     custom_k_space |-> DefaultKSpace, has_custom |-> FALSE, modes |-> <<>>]

NoSim ==
    [jobname |-> <<>>, workingdir |-> <<>>, clear_subfolder |-> FALSE,
     kspace |-> DefaultKSpace, modes |-> <<>>, project_bands_list |-> <<>>]

IdleBuild ==
    [pc |-> "idle", recipe |-> "", mode |-> "", runmode |-> RM_NONE,
     k_steps |-> 0, k_points |-> <<>>, i |-> 0, project_bands_list |-> <<>>,
     args |-> NoArgs, sim |-> NoSim, ctx |-> "top", ret |-> "none",
     result |-> "none",
     \* history of this build, for stating properties:
     calls |-> <<>>,      \* the bulk-recipe calls made for missing references
     events |-> <<>>,     \* <<"call", i>> and <<"return", i>> in order
     effects |-> {},      \* filesystem mutations and solver runs so far
     constructed |-> FALSE,  \* the waveguide's own Simulation exists
     allAtStart |-> FALSE, noneAtStart |-> FALSE, failedAt |-> 0]

Init ==
    /\ family \in Families
    /\ repo_dirs = {}
    /\ repo_files = {}
    /\ bld = [p \in Procs |-> IdleBuild]
    /\ named = <<>>
    /\ calc = [op |-> "none"]

\* only the projected-bands tree is kept as state; mutations elsewhere
\* (the job folders below curdir) are recorded in effects
Tracked(folder) == IsUnder(folder, curdir \o projected_bands_folder)

Effect(op, folder) == [op |-> op, path |-> folder]

\* ------------------------------------------------ Simulation, do_runmode

RunmodeKind(rm) ==
    IF rm = RM_NONE THEN "none"
    ELSE IF rm = RM_CTL THEN "ctl"
    ELSE IF rm = RM_SIM THEN "sim"
    ELSE IF rm = RM_POSTPC THEN "postpc"
    ELSE IF rm = RM_DISPLAY THEN "display"
    ELSE "invalid"

\* the value a recipe call hands back to its caller
Return(b, value) ==
    IF b.ctx = "sub"
    THEN [b EXCEPT !.pc = "sub_ret", !.ret = value,
                   !.events = Append(@, <<"return", b.i>>)]
    ELSE [b EXCEPT !.pc = "done", !.result = value]

\* the working directory is made ready: emptied when clear_subfolder is set
DirsAfterPrepare(dirs, sim) ==
    IF Tracked(sim.workingdir) THEN dirs \cup {sim.workingdir} ELSE dirs

FilesAfterPrepare(files, sim) ==
    IF sim.clear_subfolder
    THEN {f \in files : ~IsUnder(f, sim.workingdir)}
    ELSE files

PrepareEffects(sim) ==
    (IF sim.clear_subfolder THEN {Effect("clear", sim.workingdir)} ELSE {})
        \cup {Effect("write_ctl", sim.workingdir)}

\* the marker files post-processing leaves after a completed simulation
RangesFiles(sim) ==
    {PathJoin(sim.workingdir, sim.jobname \o <<"_", sim.modes[m], "_ranges.csv">>) :
        m \in 1..Len(sim.modes)}

\* do_runmode(sim, runmode, ...) up to the point where the solver is started
DoRunmode(p, b, sim, rm) ==
    LET kind == RunmodeKind(rm)
        b1 == [b EXCEPT !.sim = sim]
    IN  CASE kind = "invalid" ->
               /\ bld' = [bld EXCEPT ![p] = Return(b1, "rejected")]
               /\ UNCHANGED <<repo_dirs, repo_files>>
          [] kind = "none" ->
               /\ bld' = [bld EXCEPT ![p] = Return(b1, "sim")]
               /\ UNCHANGED <<repo_dirs, repo_files>>
          [] kind = "ctl" ->
               /\ bld' = [bld EXCEPT ![p] =
                    Return([b1 EXCEPT !.effects = @ \cup PrepareEffects(sim)], "sim")]
               /\ repo_dirs' = DirsAfterPrepare(repo_dirs, sim)
               /\ repo_files' = FilesAfterPrepare(repo_files, sim)
          [] kind = "sim" ->
               /\ bld' = [bld EXCEPT ![p] =
                    [b1 EXCEPT !.pc = "solving",
                               !.effects = @ \cup PrepareEffects(sim)
                                   \cup {Effect("solver", sim.workingdir)}]]
               /\ repo_dirs' = DirsAfterPrepare(repo_dirs, sim)
               /\ repo_files' = FilesAfterPrepare(repo_files, sim)
          [] kind = "postpc" ->
               /\ bld' = [bld EXCEPT ![p] =
                    Return([b1 EXCEPT !.effects = @ \cup
                               {Effect("postprocess", sim.workingdir)}], "sim")]
               /\ UNCHANGED <<repo_dirs, repo_files>>
          [] kind = "display" ->
               /\ bld' = [bld EXCEPT ![p] = Return(b1, "sim")]
               /\ UNCHANGED <<repo_dirs, repo_files>>

\* the solver subprocess ends; after a successful run post-processing
\* writes the ranges files, after a failed one do_runmode returns False
SolverDone(p) ==
    LET b == bld[p] IN
    /\ b.pc = "solving"
    /\ \E ok \in BOOLEAN :
         IF ok
         THEN /\ bld' = [bld EXCEPT ![p] =
                   Return([b EXCEPT !.effects = @ \cup
                              {Effect("postprocess", b.sim.workingdir)}], "sim")]
              /\ repo_files' =
                   IF Tracked(b.sim.workingdir)
                   THEN repo_files \cup RangesFiles(b.sim) ELSE repo_files
         ELSE /\ bld' = [bld EXCEPT ![p] = Return(b, "false")]
              /\ UNCHANGED repo_files
    /\ UNCHANGED <<family, named, calc, repo_dirs>>

\* --------------------------------------------------------------- recipes

\* a caller starts a recipe with some arguments
Begin(p) ==
    /\ bld[p].pc \in {"idle", "done"}
    /\ \E recipe \in {BulkRecipe(family), WaveguideRecipe(family)},
          runmode \in RunModes :
         IF IsWaveguide(recipe)
         THEN \E mode \in WaveguideModes(family), k_steps \in 0..MaxKSteps :
                bld' = [bld EXCEPT ![p] =
                  [IdleBuild EXCEPT
                     !.pc = "start", !.recipe = recipe, !.mode = mode,
                     !.runmode = runmode, !.k_steps = k_steps,
                     !.noneAtStart = (repo_files = {}),
                     !.allAtStart =
                        \A j \in 1..k_steps :
                          RangeFileName(Repo(family),
                              UnperturbedJobname(family, material, radius10k,
                                                 thickness10k)
                                  \o JobnameSuffix(linspace(k_steps)[j]),
                              mode) \in repo_files]]
         ELSE bld' = [bld EXCEPT ![p] =
                [IdleBuild EXCEPT
                   !.pc = "bulk", !.recipe = recipe, !.runmode = runmode,
                   !.args = [NoArgs EXCEPT !.runmode = runmode,
                                           !.containing_folder = curdir,
                                           !.modes = DefaultModes(family)]]]
    /\ UNCHANGED <<family, named, calc, repo_dirs, repo_files>>

\* TriHoles2D / TriHolesSlab3D: name the job, construct the Simulation and
\* hand it to do_runmode
Bulk(p) ==
    LET b == bld[p]
        a == b.args
        jobname == BulkJobname(family, material, radius10k, thickness10k)
        sim == [jobname |-> jobname \o a.job_name_suffix,
                workingdir |-> BulkWorkdir(a.containing_folder, jobname,
                                           a.job_name_suffix),
                clear_subfolder |-> ClearSubfolder(a.runmode),
                kspace |-> BulkKSpace(a.has_custom, a.custom_k_space, 11),
                modes |-> a.modes,
                project_bands_list |-> <<>>]
    IN  /\ b.pc = "bulk"
        /\ DoRunmode(p, b, sim, a.runmode)
        /\ UNCHANGED <<family, named, calc>>

\* k_steps given as a number
KStepsInt(n) == [kind |-> "int", n |-> n, values |-> <<>>]

\* k_steps given as a list of k-values
KStepsList(values) == [kind |-> "list", n |-> 0, values |-> values]

\* k_points: TriHoles2D_Waveguide hands k_steps to np.linspace as num, which
\* raises TypeError for a list; TriHolesSlab3D_Waveguide takes a list as the
\* k-values themselves
KPoints(fam, k_steps) ==
    IF k_steps.kind = "int"
    THEN [raised |-> FALSE, values |-> linspace(k_steps.n)]
    ELSE IF fam = "2D"
    THEN [raised |-> TRUE, values |-> <<>>]
    ELSE [raised |-> FALSE, values |-> k_steps.values]

\* a waveguide path with one point put between two k-values
WaveguideKSpace_interpolated(fam, ydirection, k_steps, k_points) ==
    [kind |-> "custom",
     points_list |-> [e \in 1..Len(k_points) |-> <<k_points[e], <<0, 1>>, <<0, 1>>>>],
     k_interpolation |-> 1]

\* the KSpace of the waveguide simulation, k_interpolation=0:
\* 2D: [(0, x, 0) for x in np.linspace(0, 0.5, num=k_steps)] with
\*     ydirection, else np.linspace(0, 0.5, num=k_steps) itself;
\* slab: [(0, ky, 0) for ky in k_points] with ydirection, else
\*     [(ky, 0, 0) for ky in k_points]
WaveguideKSpace(fam, ydirection, k_steps, k_points) ==
    LET xs == IF fam = "2D" THEN linspace(k_steps.n) ELSE k_points
    IN  [kind |-> "custom",
         points_list |->
            [e \in 1..Len(xs) |->
               IF ydirection THEN <<<<0, 1>>, xs[e], <<0, 1>>>>
               ELSE IF fam = "2D" THEN <<xs[e]>>
               ELSE <<xs[e], <<0, 1>>, <<0, 1>>>>],
         k_interpolation |-> 0]

\* waveguide recipes, up to the loop: create the repository folder, sample
\* the k-values
WgSetup(p) ==
    LET b == bld[p]
        repo == Repo(family)
    IN  /\ b.pc = "start"
        /\ bld' = [bld EXCEPT ![p] =
              [b EXCEPT !.pc = "loop", !.i = 1,
                        !.k_points = linspace(b.k_steps),
                        !.project_bands_list = <<>>,
                        !.effects = IF repo \in repo_dirs THEN @
                                    ELSE @ \cup {Effect("makedirs", repo)}]]
        /\ repo_dirs' = repo_dirs \cup {repo}
        /\ UNCHANGED <<family, named, calc, repo_files>>

\* one pass of `for ky in k_points` up to the call of the bulk recipe
WgCheck(p) ==
    LET b == bld[p]
        repo == Repo(family)
        ky == b.k_points[b.i]
        jobname_suffix == JobnameSuffix(ky)
        jobname == UnperturbedJobname(family, material, radius10k, thickness10k)
                       \o jobname_suffix
        list == AppendFolder(b.project_bands_list, repo, jobname)
        range_file_name == RangeFileName(repo, jobname, b.mode)
        a == [runmode |-> SubRunmode(family, b.runmode),
              containing_folder |-> repo,
              job_name_suffix |-> jobname_suffix,
              custom_k_space |-> ReferenceKSpace(ky),
              has_custom |-> TRUE,
              modes |-> <<b.mode>>]
    IN  /\ b.pc = "loop"
        /\ b.i <= Len(b.k_points)
        /\ IF NeedsSimulation(repo_files, range_file_name)
           THEN bld' = [bld EXCEPT ![p] =
                  [b EXCEPT !.pc = "bulk", !.ctx = "sub", !.args = a,
                            !.project_bands_list = list,
                            !.calls = Append(@, [k |-> b.i, args |-> a]),
                            !.events = Append(@, <<"call", b.i>>)]]
           ELSE bld' = [bld EXCEPT ![p] =
                  [b EXCEPT !.i = @ + 1, !.project_bands_list = list]]
        /\ UNCHANGED <<family, named, calc, repo_dirs, repo_files>>

\* a check that never sees a failure
SubFailed_never(ret) == FALSE

\* `if not sim`
SubFailed(ret) == ret \in {"false", "none"}

\* the bulk recipe has returned: `if not sim: log.error(...); return`
WgAfterSub(p) ==
    LET b == bld[p] IN
    /\ b.pc = "sub_ret"
    /\ IF SubFailed(b.ret)
       THEN bld' = [bld EXCEPT ![p] =
              [b EXCEPT !.pc = "done", !.ctx = "top", !.result = "none",
                        !.failedAt = b.i]]
       ELSE bld' = [bld EXCEPT ![p] =
              [b EXCEPT !.pc = "loop", !.ctx = "top", !.i = @ + 1]]
    /\ UNCHANGED <<family, named, calc, repo_dirs, repo_files>>

\* after the loop: the waveguide's own job is constructed
WgConstruct(p) ==
    LET b == bld[p]
        jobname == WaveguideJobname(family, material, radius10k, thickness10k)
        sim == [jobname |-> jobname,
                workingdir |-> DefaultWorkdir(jobname),
                clear_subfolder |-> ClearSubfolder(b.runmode),
                kspace |-> WaveguideKSpace(family, FALSE, KStepsInt(b.k_steps),
                                           b.k_points),
                modes |-> <<b.mode>>,
                project_bands_list |-> b.project_bands_list]
    IN  /\ b.pc = "loop"
        /\ b.i > Len(b.k_points)
        /\ bld' = [bld EXCEPT ![p] = [b EXCEPT !.pc = "do_runmode", !.sim = sim,
                                               !.constructed = TRUE]]
        /\ UNCHANGED <<family, named, calc, repo_dirs, repo_files>>

\* the waveguide recipe's own `return do_runmode(sim, runmode, ...)`
WgRunmode(p) ==
    LET b == bld[p] IN
    /\ b.pc = "do_runmode"
    /\ DoRunmode(p, b, b.sim, b.runmode)
    /\ UNCHANGED <<family, named, calc>>

Next ==
    \/ Begin(MainProc)
    \/ Bulk(MainProc)
    \/ WgSetup(MainProc)
    \/ WgCheck(MainProc)
    \/ WgAfterSub(MainProc)
    \/ WgConstruct(MainProc)
    \/ WgRunmode(MainProc)
    \/ SolverDone(MainProc)

Spec == Init /\ [][Next]_vars

\* ------------------------------------------ two builds at the same time

\* a caller starts its one waveguide build, runmode 'sim'
BeginWaveguide(p) ==
    /\ bld[p].pc = "idle"
    /\ \E mode \in WaveguideModes(family), k_steps \in 1..MaxKSteps :
         bld' = [bld EXCEPT ![p] =
           [IdleBuild EXCEPT
              !.pc = "start", !.recipe = WaveguideRecipe(family),
              !.mode = mode, !.runmode = RM_SIM, !.k_steps = k_steps,
              !.noneAtStart = (repo_files = {}),
              !.allAtStart =
                 \A j \in 1..k_steps :
                   RangeFileName(Repo(family),
                       UnperturbedJobname(family, material, radius10k,
                                          thickness10k)
                           \o JobnameSuffix(linspace(k_steps)[j]),
                       mode) \in repo_files]]
    /\ UNCHANGED <<family, named, calc, repo_dirs, repo_files>>

\* the callers' builds run as separate processes on one file system
ConcNext ==
    \E p \in Procs :
      \/ BeginWaveguide(p)
      \/ Bulk(p)
      \/ WgSetup(p)
      \/ WgCheck(p)
      \/ WgAfterSub(p)
      \/ WgConstruct(p)
      \/ WgRunmode(p)
      \/ SolverDone(p)

ConcSpec == Init /\ [][ConcNext]_vars

\* ------------------------------------------------------- naming of jobs

\* largest offset of the radii tried by the naming specification
RadiusSpan == 6

Materials == {"SiN", "Si"}
NameRadii == 1229..(1229 + RadiusSpan)
NameThicknesses == {8000, 8004, 8006}

RecipeJobname(recipe, mat, r10k, t10k) ==
    IF recipe = "TriHoles2D" THEN BulkJobname("2D", mat, r10k, t10k)
    ELSE IF recipe = "TriHolesSlab3D" THEN BulkJobname("3D", mat, r10k, t10k)
    ELSE IF recipe = "TriHoles2D_Waveguide"
    THEN WaveguideJobname("2D", mat, r10k, t10k)
    ELSE WaveguideJobname("3D", mat, r10k, t10k)

RecipeWorkdir(recipe, jobname) ==
    IF IsWaveguide(recipe) THEN DefaultWorkdir(jobname)
    ELSE BulkWorkdir(curdir, jobname, <<>>)

\* a recipe of the family is called with a material, a radius and (slabs)
\* a thickness, and names its job and its folder
NameCall ==
    /\ \E recipe \in {BulkRecipe(family), WaveguideRecipe(family)},
          mat \in Materials, r \in NameRadii,
          t \in IF family = "2D" THEN {0} ELSE NameThicknesses :
         LET jobname == RecipeJobname(recipe, mat, r, t)
             rec == [recipe |-> recipe, material |-> mat, radius10k |-> r,
                     thickness10k |-> t, jobname |-> jobname,
                     folder |-> RecipeWorkdir(recipe, jobname)]
         IN  named' = IF Len(named) < 2 THEN Append(named, rec)
                      ELSE <<named[2], rec>>
    /\ UNCHANGED <<family, repo_dirs, repo_files, bld, calc>>

NameNext == NameCall

NameSpec == Init /\ [][NameNext]_vars

\* --------------------------------------------------------------- k-paths

\* largest k_interpolation and longest explicit list of k-points tried
MaxInterp == 3
MaxPoints == 3

\* k-points with one, two and three coordinates
PointChoices ==
    {<<<<1, 4>>>>, <<<<1, 2>>, <<1, 2>>>>, <<<<1, 3>>, <<1, 3>>, <<0, 1>>>>}

PointLists == UNION {[1..m -> PointChoices] : m \in 0..MaxPoints}

\* a computation of a recipe starts when no other one is going on, leaves
\* its inputs and its outcome in calc, and changes nothing else
CalcIdle == calc.op = "none"
CalcOnly == UNCHANGED <<family, repo_dirs, repo_files, bld, named>>

\* the computation is over
CalcReturn ==
    /\ calc.op # "none"
    /\ calc' = [op |-> "none"]
    /\ UNCHANGED <<family, repo_dirs, repo_files, bld, named>>

\* a bulk recipe called without custom_k_space: its KSpaceTriangular path
KCanonical ==
    \E n \in 0..MaxInterp :
      LET kspace == BulkKSpace(FALSE, DefaultKSpace, n)
      IN  /\ CalcIdle
          /\ CalcOnly
          /\ calc' = [op |-> "canonical", k_interpolation |-> n,
                      kspace |-> kspace, points |-> Points(kspace)]

\* KSpace(points_list=..., k_interpolation=...) of an explicit list
KExplicit ==
    \E list \in PointLists, n \in 0..MaxInterp :
      LET kspace == [kind |-> "custom", points_list |-> list,
                     k_interpolation |-> n]
      IN  /\ CalcIdle
          /\ CalcOnly
          /\ calc' = [op |-> "explicit", k_interpolation |-> n,
                      kspace |-> kspace, points |-> Points(kspace)]

\* the k-path of the reference simulation of a sampled k-value
KReference ==
    \E k_steps \in 1..MaxKSteps :
      \E j \in 1..k_steps :
        LET kspace == ReferenceKSpace(linspace(k_steps)[j])
        IN  /\ CalcIdle
            /\ CalcOnly
            /\ calc' = [op |-> "reference", ky |-> linspace(k_steps)[j],
                        kspace |-> kspace, points |-> Points(kspace)]

\* ------------------------------------------------------------- run code

\* longest list of band numbers tried
MaxBands == 2

BandChoices == {2, 4, 12}
BandLists == UNION {[1..m -> BandChoices] : m \in 0..MaxBands}
KvecChoices == {<<<<1, 4>>, <<0, 1>>, <<0, 1>>>>, <<<<1, 2>>, <<0, 1>>, <<0, 1>>>>}
KvecLists == UNION {[1..m -> KvecChoices] : m \in 0..2}

output_funcs_te == <<"fix-hfield-phase", "output-hfield-z">>
output_funcs_tm == <<"fix-efield-phase", "output-efield-z">>

\* if mode == 'te' (2D) / if mode == 'zeven' (slab): te functions, else tm
OutputFuncs(fam, mode) ==
    IF fam = "2D"
    THEN IF mode = "te" THEN output_funcs_te ELSE output_funcs_tm
    ELSE IF mode = "zeven" THEN output_funcs_te ELSE output_funcs_tm

\* one form of the run code
Form(form, name, items) == [form |-> form, name |-> name, items |-> items]

\* defaults.default_band_func(kvecs, funcname): the band functions of the
\* run directive, funcname applied at the k-vectors kvecs
default_band_func(kvecs, funcname) == <<funcname, kvecs>>

\* field-pattern output requested when either list is given
Runcode_eitherList(fam, mode, bandnums, kvecs, newmpb) ==
    (IF newmpb THEN <<Form("optimize-grid-size!", "", <<>>)>> ELSE <<>>)
    \o (IF bandnums # <<>> \/ kvecs # <<>>
        THEN <<Form("define", "member?", <<>>),
               Form("define", "output-bands-list",
                    [e \in 1..Len(bandnums) |-> DigitsOf(bandnums[e])]),
               Form("define", "output-func", OutputFuncs(fam, mode)),
               Form("run", mode, default_band_func(kvecs, "output-func")),
               Form("print-dos", "", <<>>)>>
        ELSE <<Form("run", mode, default_band_func(<<>>, "None")),
               Form("print-dos", "", <<>>)>>)

\* the runcode string of a waveguide recipe, form by form
Runcode(fam, mode, bandnums, kvecs, newmpb) ==
    (IF newmpb THEN <<Form("optimize-grid-size!", "", <<>>)>> ELSE <<>>)
    \o (IF bandnums # <<>> /\ kvecs # <<>>
        THEN <<Form("define", "member?", <<>>),
               Form("define", "output-bands-list",
                    [e \in 1..Len(bandnums) |-> DigitsOf(bandnums[e])]),
               Form("define", "output-func", OutputFuncs(fam, mode)),
               Form("run", mode, default_band_func(kvecs, "output-func")),
               Form("print-dos", "", <<>>)>>
        ELSE <<Form("run", mode, default_band_func(<<>>, "None")),
               Form("print-dos", "", <<>>)>>)

\* the mode values the run code of a waveguide recipe is built for: the
\* ones builds are called with, and for slabs also 'tm' and 'zodd'
EmitModes(fam) ==
    WaveguideModes(fam) \cup (IF fam = "3D" THEN {"tm", "zodd"} ELSE {})

\* a waveguide recipe builds its run code
EmitRuncode ==
    \E mode \in EmitModes(family), bandnums \in BandLists,
       kvecs \in KvecLists, newmpb \in BOOLEAN :
      /\ CalcIdle
      /\ CalcOnly
      /\ calc' = [op |-> "runcode", mode |-> mode, bandnums |-> bandnums,
                  kvecs |-> kvecs, newmpb |-> newmpb,
                  outputfuncs |-> OutputFuncs(family, mode),
                  runcode |-> Runcode(family, mode, bandnums, kvecs, newmpb)]

\* values of the parameter modes of the bulk recipes: the documented modes,
\* and for slabs also '' (plain run)
BulkModeChoices(fam) ==
    IF fam = "2D" THEN {"te", "tm"} ELSE {"zeven", "zodd", ""}
BulkModeLists(fam) == UNION {[1..m -> BulkModeChoices(fam)] : m \in 1..2}

output_funcs_other == <<"fix-efield-phase", "output-efield", "output-hfield">>

\* ' '.join(names)
RECURSIVE Join(_)
Join(names) ==
    IF Len(names) <= 1 THEN names
    ELSE <<names[1], " ">> \o Join(Tail(names))

\* the output functions of one mode of a bulk recipe: TriHoles2D tests
\* mode == 'te', TriHolesSlab3D mode == '' and then mode == 'zeven'
BulkOutputFuncs(fam, mode) ==
    IF fam = "2D"
    THEN IF mode = "te" THEN output_funcs_te ELSE output_funcs_tm
    ELSE IF mode = "" THEN output_funcs_other
    ELSE IF mode = "zeven" THEN output_funcs_te ELSE output_funcs_tm

\* poi = kspace.points()[0:-1] if save_field_patterns else []
PointsOfInterest(kspace, save_field_patterns) ==
    IF save_field_patterns
    THEN SubSeq(Points(kspace), 1, Len(Points(kspace)) - 1)
    ELSE <<>>

\* runcode of a bulk recipe: for each mode a run directive, '(run ...)' for
\* mode '', with the joined output functions applied at poi, and print-dos
RECURSIVE BulkRuncode(_, _, _)
BulkRuncode(fam, modes, poi) ==
    IF modes = <<>> THEN <<>>
    ELSE <<Form("run", modes[1],
                default_band_func(poi, Join(BulkOutputFuncs(fam, modes[1])))),
           Form("print-dos", "", <<>>)>>
         \o BulkRuncode(fam, Tail(modes), poi)

\* a bulk recipe builds its run code
EmitBulkRuncode ==
    \E modes \in BulkModeLists(family), save_field_patterns \in BOOLEAN,
       k_interpolation \in 0..1 :
      /\ CalcIdle
      /\ CalcOnly
      /\ calc' = [op |-> "bulk_runcode", modes |-> modes,
                  save_field_patterns |-> save_field_patterns,
                  k_interpolation |-> k_interpolation,
                  runcode |-> BulkRuncode(family, modes,
                                 PointsOfInterest(
                                     BulkKSpace(FALSE, DefaultKSpace,
                                                k_interpolation),
                                     save_field_patterns))]

\* --------------------------------------------------------- slab geometry

\* values of substrate_material: None, the empty string and two materials
SubstrateMaterials == {"None", "", "SiO2", "Si"}

\* a Geometry of the given primitives, no substrate added
Geometry(objects) == [objects |-> objects, substrate_index |-> 1]

\* geom.add_substrate(material, start_at): appends the substrate and records
\* the length the primitive list had before
add_substrate(geom, substrate, start_at) ==
    [objects |-> Append(geom.objects,
                        [kind |-> "Substrate", material |-> substrate,
                         start_at |-> start_at]),
     substrate_index |-> Len(geom.objects)]

\* a slab geometry whose substrate is added whatever substrate_material is
SlabGeometry_alwaysSubstrate(thick10k, substrate_material) ==
    add_substrate(
        Geometry(<<[kind |-> "Block", material |-> material,
                    start_at |-> <<0, 1>>],
                   [kind |-> "Rod", material |-> "air",
                    start_at |-> <<0, 1>>]>>),
        substrate_material, <<0 - thick10k, 20000>>)

\* geom = Geometry(objects=[Block, Rod]); if substrate_material:
\*     geom.add_substrate(Dielectric(substrate_material), -0.5 * thickness)
SlabGeometry(thick10k, substrate_material) ==
    LET geom == Geometry(<<[kind |-> "Block", material |-> material,
                            start_at |-> <<0, 1>>],
                           [kind |-> "Rod", material |-> "air",
                            start_at |-> <<0, 1>>]>>)
    IN  IF substrate_material \notin {"None", ""}
        THEN add_substrate(geom, substrate_material, <<0 - thick10k, 20000>>)
        ELSE geom

\* a / b of Python floats
RatDiv(a, b) ==
    IF b[1] = 0 THEN "ZeroDivisionError" ELSE <<a[1] * b[2], a[2] * b[1]>>

\* a crop value that ignores the substrate
PlotCropY_unscaled(geom) == <<4, 5>>

\* plot_crop_y=0.8 / geom.substrate_index
PlotCropY(geom) == RatDiv(<<4, 5>>, <<geom.substrate_index, 1>>)

\* TriHolesSlab3D builds its geometry and the crop value of its plots
SlabCrop ==
    \E thick10k \in {thickness10k, 8004}, substrate_material \in SubstrateMaterials :
      LET geom == SlabGeometry(thick10k, substrate_material)
      IN  /\ CalcIdle
          /\ CalcOnly
          /\ calc' = [op |-> "slab", thickness |-> thick10k,
                      substrate_material |-> substrate_material,
                      geom |-> geom, plot_crop_y |-> PlotCropY(geom)]

\* ------------------------------------------------------ waveguide holes

\* largest supercell_size tried
MaxSupercell == 6

\* a supercell size taken as it is given
EffectiveSupercell_asGiven(supercell_size) == supercell_size

\* if supercell_size % 2 == 0: supercell_size += 1
EffectiveSupercell(supercell_size) ==
    IF supercell_size % 2 = 0 THEN supercell_size + 1 ELSE supercell_size

\* sch = int(supercell_size / 2), supercell_size positive
HalfSupercell(supercell_size) == supercell_size \div 2

\* list(range(from, to))
range(from, to) == [e \in 1..(to - from) |-> from + e - 1]

\* Rod(x=..., y=..., material='air'): along is the coordinate across the
\* waveguide in units of sqrt(3) (y, or x with ydirection), lane the other
\* coordinate in lattice constants
Rod(along, lane, ydirection) ==
    [kind |-> "Rod",
     x |-> IF ydirection THEN along ELSE lane,
     y |-> IF ydirection THEN lane ELSE along,
     sqrt3 |-> IF ydirection THEN "x" ELSE "y"]

\* objects of the waveguide geometry: the slab's Block, the centre holes
\* for c in range(-sch, 0) + range(1, sch + 1), then the perimeter holes
\* at c + 0.5 for c in range(-sch, sch + 1)
WaveguideObjects(fam, supercell_size, ydirection) ==
    LET sch == HalfSupercell(supercell_size)
        centre == range(0 - sch, 0) \o range(1, sch + 1)
        perimeter == range(0 - sch, sch + 1)
    IN  (IF fam = "3D" THEN <<[kind |-> "Block"]>> ELSE <<>>)
        \o [e \in 1..Len(centre) |-> Rod(<<centre[e], 1>>, <<0, 1>>, ydirection)]
        \o [e \in 1..Len(perimeter) |->
              Rod(<<2 * perimeter[e] + 1, 2>>, <<1, 2>>, ydirection)]

\* a waveguide recipe makes its supercell odd and places the holes
WgHoles ==
    \E given \in 1..MaxSupercell, ydirection \in BOOLEAN :
      LET supercell_size == EffectiveSupercell(given)
      IN  /\ CalcIdle
          /\ CalcOnly
          /\ calc' = [op |-> "holes", given |-> given,
                      supercell_size |-> supercell_size,
                      sch |-> HalfSupercell(supercell_size),
                      ydirection |-> ydirection,
                      objects |-> WaveguideObjects(family, supercell_size,
                                                   ydirection)]

\* ------------------------------------------------ waveguide k-values

KValueChoices == {<<0, 1>>, <<1, 4>>, <<1, 2>>}
KValueLists == UNION {[1..m -> KValueChoices] : m \in 0..MaxKSteps}
KStepsArguments ==
    {KStepsInt(n) : n \in 0..MaxKSteps} \cup {KStepsList(l) : l \in KValueLists}

\* project_bands_list after the loop `for ky in k_points`
RECURSIVE ProjectBandsList(_, _)
ProjectBandsList(fam, k_points) ==
    IF k_points = <<>> THEN <<>>
    ELSE LET front == SubSeq(k_points, 1, Len(k_points) - 1)
             ky == k_points[Len(k_points)]
         IN  AppendFolder(ProjectBandsList(fam, front), Repo(fam),
                          UnperturbedJobname(fam, material, radius10k,
                                             thickness10k)
                              \o JobnameSuffix(ky))

\* a waveguide recipe samples its k-values, lists the reference folders and
\* builds the k-path of its own simulation
KWaveguide ==
    \E k_steps \in KStepsArguments, ydirection \in BOOLEAN :
      LET k_points == KPoints(family, k_steps)
          kspace == WaveguideKSpace(family, ydirection, k_steps,
                                    k_points.values)
      IN  /\ CalcIdle
          /\ CalcOnly
          /\ calc' = IF k_points.raised
                     THEN [op |-> "waveguide_k", k_steps |-> k_steps,
                           ydirection |-> ydirection, raised |-> TRUE,
                           k_points |-> <<>>, project_bands_list |-> <<>>,
                           points |-> <<>>]
                     ELSE [op |-> "waveguide_k", k_steps |-> k_steps,
                           ydirection |-> ydirection, raised |-> FALSE,
                           k_points |-> k_points.values,
                           project_bands_list |->
                              ProjectBandsList(family, k_points.values),
                           points |-> Points(kspace)]

CalcNext ==
    \/ CalcReturn
    \/ KCanonical
    \/ KExplicit
    \/ KReference
    \/ EmitRuncode
    \/ EmitBulkRuncode
    \/ SlabCrop
    \/ WgHoles
    \/ KWaveguide

CalcSpec == Init /\ [][CalcNext]_vars

\* ------------------------------------------------------------ properties

Last(seq) == seq[Len(seq)]

IsPrefix(s, t) == Len(s) <= Len(t) /\ s = SubSeq(t, 1, Len(s))

\* call 1, return 1, call 2, return 2, ..., call n, return n
ExpectedEvents(n) ==
    [e \in 1..(2 * n) |->
        IF e % 2 = 1 THEN <<"call", (e + 1) \div 2>> ELSE <<"return", e \div 2>>]

\* everything below projected_bands_folder
InProjectedBands(folder) == IsUnder(folder, <<<<"..">>, <<"projected_bands_repo">>>>)

\* the marker file of a reference folder
MarkerIn(folder, mode) ==
    Append(folder, Last(folder) \o <<"_", mode, "_ranges.csv">>)

\* C1: a waveguide build that found the marker file of its mode present for
\* every sampled k-value when it started never calls the bulk recipe.
C1_NoCallWhenAllMarked ==
    \A p \in Procs :
        (IsWaveguide(bld[p].recipe) /\ bld[p].allAtStart)
            => (bld[p].calls = <<>> /\ bld[p].events = <<>>)

C1_Witness ==
    \E p \in Procs :
        /\ IsWaveguide(bld[p].recipe)
        /\ bld[p].allAtStart
        /\ bld[p].k_steps >= 2
        /\ bld[p].pc = "done"
        /\ bld[p].calls = <<>>

\* C2: a waveguide build that started on a projected-bands folder without
\* any marker file calls the bulk recipe for the sampled k-values in their
\* order, each call after the return of the one before, and when no call
\* failed exactly once for every k-value.
C2_OncePerKInOrder ==
    \A p \in Procs :
        (IsWaveguide(bld[p].recipe) /\ bld[p].noneAtStart)
            => /\ IsPrefix(bld[p].events, ExpectedEvents(bld[p].k_steps))
               /\ \A c \in 1..Len(bld[p].calls) : bld[p].calls[c].k = c
               /\ bld[p].constructed
                    => /\ bld[p].events = ExpectedEvents(bld[p].k_steps)
                       /\ Len(bld[p].calls) = bld[p].k_steps

C2_Witness ==
    \E p \in Procs :
        /\ IsWaveguide(bld[p].recipe)
        /\ bld[p].noneAtStart
        /\ bld[p].k_steps = 2
        /\ bld[p].constructed
        /\ Len(bld[p].calls) = 2

\* C3: once the bulk recipe has returned a falsy result for a k-value, the
\* waveguide build has ended with the result None, has made no call for a
\* later k-value, has not constructed its own Simulation and has touched
\* nothing outside the projected-bands folder.
C3_AbortOnFailure ==
    \A p \in Procs :
        (IsWaveguide(bld[p].recipe) /\ bld[p].ret = "false"
                /\ bld[p].pc # "sub_ret")
            => /\ bld[p].pc = "done"
               /\ bld[p].result = "none"
               /\ ~bld[p].constructed
               /\ Len(bld[p].calls) >= 1
               /\ \A c \in 1..Len(bld[p].calls) :
                    bld[p].calls[c].k <= Last(bld[p].calls).k
               /\ Last(bld[p].events) = <<"return", Last(bld[p].calls).k>>
               /\ \A e \in bld[p].effects : InProjectedBands(e.path)

C3_Witness ==
    \E p \in Procs :
        /\ IsWaveguide(bld[p].recipe)
        /\ bld[p].ret = "false"
        /\ bld[p].pc = "done"
        /\ bld[p].result = "none"
        /\ bld[p].k_steps = 2
        /\ Last(bld[p].calls).k = 1

SixDigits(v) ==
    <<DigitChar[((v \div 100000) % 10) + 1], DigitChar[((v \div 10000) % 10) + 1],
      DigitChar[((v \div 1000) % 10) + 1], DigitChar[((v \div 100) % 10) + 1],
      DigitChar[((v \div 10) % 10) + 1], DigitChar[(v % 10) + 1]>>

\* the j-th of n evenly spaced values from 0 to 0.5, in millionths
MicroOf(j, n) ==
    IF n = 1 THEN 0 ELSE (2 * (j - 1) * 500000 + (n - 1)) \div (2 * (n - 1))

\* the name of the unperturbed structure for material SiN, radius 0.380
\* and thickness 0.800
ExpectedUnperturbed ==
    IF family = "2D"
    THEN <<"TriHoles2D_", "SiN", "_r", "3", "8", "0">>
    ELSE <<"TriHolesSlab_", "SiN", "_r", "3", "8", "0", "_t", "8", "0", "0">>

ExpectedFolder(j, n) ==
    <<<<"..">>, <<"projected_bands_repo">>, ExpectedUnperturbed,
      ExpectedUnperturbed \o <<"_projk">> \o SixDigits(MicroOf(j, n))>>

\* C4: the project_bands_list of the Simulation a waveguide recipe hands to
\* do_runmode has one folder per sampled k-value, the i-th being
\* <repo>/<unperturbed_jobname>_projk<ky_i * 1e6 as 6 digits>.
C4_ReferenceList ==
    \A p \in Procs :
        bld[p].constructed
            => /\ Len(bld[p].sim.project_bands_list) = bld[p].k_steps
               /\ \A j \in 1..bld[p].k_steps :
                    bld[p].sim.project_bands_list[j]
                        = ExpectedFolder(j, bld[p].k_steps)

\* a list that mixes a memoized and a freshly computed reference
C4_Witness ==
    \E p \in Procs :
        /\ bld[p].constructed
        /\ bld[p].pc = "do_runmode"
        /\ bld[p].k_steps = 2
        /\ ~bld[p].noneAtStart
        /\ Len(bld[p].calls) = 1
        /\ bld[p].calls[1].k = 2

\* C5: a recipe called with a runmode outside '', 'ctl', 'sim', 'postpc',
\* 'display' mutates nothing on the filesystem and runs no solver.
C5_RejectBeforeMutation ==
    \A p \in Procs :
        (bld[p].recipe # "" /\ bld[p].runmode \notin ValidRunModes)
            => bld[p].effects = {}

\* C6: a recipe called with runmode '' creates and clears no directory,
\* writes no file and runs no solver.
C6_NoneHasNoEffects ==
    \A p \in Procs :
        (bld[p].recipe # "" /\ bld[p].runmode = RM_NONE)
            => bld[p].effects = {}

\* the runmode the recipe that constructed bld[p].sim was called with
SimRunmode(p) ==
    IF bld[p].constructed THEN bld[p].runmode ELSE bld[p].args.runmode

\* C7: the Simulation a recipe constructs asks for clearing of its folder
\* exactly when the recipe's runmode starts with 's' or 'c'; for the valid
\* runmodes that is for 'ctl' and 'sim', and the folder is cleared for
\* these and for no other.
C7_ClearRequest ==
    \A p \in Procs :
        bld[p].sim # NoSim
            => LET rm == SimRunmode(p)
                   sim == bld[p].sim
               IN  /\ sim.clear_subfolder
                        <=> (Len(rm) >= 1 /\ rm[1] \in {"s", "c"})
                   /\ rm \in ValidRunModes
                        => (sim.clear_subfolder <=> rm \in {RM_CTL, RM_SIM})
                   /\ (rm \in ValidRunModes /\ bld[p].pc # "do_runmode")
                        => (Effect("clear", sim.workingdir) \in bld[p].effects
                               <=> rm \in {RM_CTL, RM_SIM})

C7_Witness ==
    \E p \in Procs :
        /\ bld[p].constructed
        /\ bld[p].runmode = RM_CTL
        /\ bld[p].pc = "done"
        /\ bld[p].sim.clear_subfolder
        /\ Effect("clear", bld[p].sim.workingdir) \in bld[p].effects

\* the k-path of a reference call: the two points P = (ky/2, -ky/2) and
\* P + (1/2, 1/2) with 15 points between them, and the requested mode only
ReferenceCallShape(p, c) ==
    LET a == bld[p].calls[c].args
        ky == bld[p].k_points[bld[p].calls[c].k]
        pts == a.custom_k_space.points_list
    IN  /\ a.has_custom
        /\ Len(pts) = 2
        /\ RatEq(pts[1][1], <<ky[1], 2 * ky[2]>>)
        /\ RatEq(pts[1][2], <<0 - ky[1], 2 * ky[2]>>)
        /\ \A x \in 1..2 : RatEq(pts[2][x], RatAdd(pts[1][x], <<1, 2>>))
        /\ a.custom_k_space.k_interpolation = 15
        /\ a.modes = <<bld[p].mode>>

ReferencesComplete(p) ==
    /\ Len(bld[p].sim.project_bands_list) = bld[p].k_steps
    /\ \A j \in 1..Len(bld[p].sim.project_bands_list) :
         MarkerIn(bld[p].sim.project_bands_list[j], bld[p].mode) \in repo_files

NearestMilli(x10k) ==
    LET q == x10k \div 10
        r == x10k % 10
    IN  IF r < 5 THEN q ELSE IF r > 5 THEN q + 1 ELSE q + (q % 2)

ThreeDigits(v) ==
    <<DigitChar[((v \div 100) % 10) + 1], DigitChar[((v \div 10) % 10) + 1],
      DigitChar[(v % 10) + 1]>>

SameCallBut(a, b) == a.recipe = b.recipe /\ a.material = b.material

NamedCalls == {named[n] : n \in 1..Len(named)}

\* C10 as stated: two calls of a recipe with the same material whose radius
\* and thickness agree in their first three decimals get the same job name
\* and folder.
C10_SameThousandths ==
    \A a, b \in NamedCalls :
        (/\ SameCallBut(a, b)
         /\ a.radius10k \div 10 = b.radius10k \div 10
         /\ a.thickness10k \div 10 = b.thickness10k \div 10)
            => (a.jobname = b.jobname /\ a.folder = b.folder)

\* C10, amended: two calls of a recipe with the same material whose radius
\* times 1000 and thickness times 1000 round to the same integers get the
\* same job name and folder, and the name carries these rounded integers as
\* three digits.
C10_SameRounded ==
    \A a, b \in NamedCalls :
        /\ (/\ SameCallBut(a, b)
            /\ NearestMilli(a.radius10k) = NearestMilli(b.radius10k)
            /\ NearestMilli(a.thickness10k) = NearestMilli(b.thickness10k))
               => (a.jobname = b.jobname /\ a.folder = b.folder)
        /\ SubSeq(a.jobname, 4, 6) = ThreeDigits(NearestMilli(a.radius10k))
        /\ a.recipe \in {"TriHolesSlab3D", "TriHolesSlab3D_Waveguide"}
             => SubSeq(a.jobname, 8, 10) = ThreeDigits(NearestMilli(a.thickness10k))

C10_Witness ==
    /\ Len(named) = 2
    /\ SameCallBut(named[1], named[2])
    /\ named[1].radius10k = 1229
    /\ named[2].radius10k = 1234
    /\ named[1].thickness10k = named[2].thickness10k
    /\ named[1].jobname = named[2].jobname
    /\ named[1].folder = named[2].folder


BulkRecipes == {"TriHoles2D", "TriHolesSlab3D"}
SlabRecipes == {"TriHolesSlab3D", "TriHolesSlab3D_Waveguide"}

SameParameters(a, b) ==
    /\ a.material = b.material
    /\ a.radius10k = b.radius10k
    /\ a.thickness10k = b.thickness10k

\* C11: with an empty job_name_suffix two calls of a recipe with the same
\* material, radius and thickness get the same job name; two calls of a
\* recipe that differ in the material or in the rounded milli value of the
\* radius or the thickness get names that differ as strings; and a bulk
\* recipe and a waveguide recipe called with the same parameters get names
\* that differ as strings.
C11_CollisionFree ==
    \A a, b \in NamedCalls :
        /\ (a.recipe = b.recipe /\ SameParameters(a, b))
              => StringOf(a.jobname) = StringOf(b.jobname)
        /\ (/\ a.recipe = b.recipe
            /\ \/ a.material # b.material
               \/ NearestMilli(a.radius10k) # NearestMilli(b.radius10k)
               \/ /\ a.recipe \in SlabRecipes
                  /\ NearestMilli(a.thickness10k) # NearestMilli(b.thickness10k))
              => StringOf(a.jobname) # StringOf(b.jobname)
        /\ (/\ a.recipe \in BulkRecipes
            /\ IsWaveguide(b.recipe)
            /\ SameParameters(a, b))
              => StringOf(a.jobname) # StringOf(b.jobname)

\* a bulk and a waveguide call with the same parameters
C11_Witness ==
    /\ Len(named) = 2
    /\ named[1].recipe \in BulkRecipes
    /\ IsWaveguide(named[2].recipe)
    /\ SameParameters(named[1], named[2])
    /\ StringOf(named[1].jobname) # StringOf(named[2].jobname)


PointEq(a, b) == \A c \in 1..3 : RatEq(a[c], b[c])

Gamma == <<<<0, 1>>, <<0, 1>>, <<0, 1>>>>
PointM == <<<<1, 2>>, <<0, 1>>, <<0, 1>>>>
PointK == <<<<1, 3>>, <<1, 3>>, <<0, 1>>>>
CanonicalVertices == <<Gamma, PointM, PointK, Gamma>>

\* C12: the path of a bulk recipe called with k_interpolation = n and no
\* custom_k_space has 3*n + 4 points; Gamma, M, K and Gamma sit at the
\* positions 1, n + 2, 2*n + 3 and 3*n + 4, with n points that are no
\* vertices between two of them, and the first point equals the last.
C12_CanonicalPath ==
    calc.op = "canonical"
        => LET n == calc.k_interpolation
               pts == calc.points
           IN  /\ Len(pts) = 3 * n + 4
               /\ \A v \in 0..3 :
                    PointEq(pts[1 + v * (n + 1)], CanonicalVertices[v + 1])
               /\ \A e \in 1..Len(pts) :
                    (e - 1) % (n + 1) # 0
                        => \A v \in 1..4 : ~PointEq(pts[e], CanonicalVertices[v])
               /\ PointEq(pts[1], pts[Len(pts)])

C12_Witness ==
    /\ calc.op = "canonical"
    /\ calc.k_interpolation = 2
    /\ Len(calc.points) = 10
    /\ PointEq(calc.points[4], PointM)

\* C13: an explicit list of m k-points with interpolation count n yields
\* (m-1)*n + m points for m >= 1 and none for m = 0; with n = 0 it yields
\* the given points; the path of a reference simulation has two given
\* points, n = 15 and 17 points.
C13_ExplicitPath ==
    /\ calc.op = "explicit"
         => LET m == Len(calc.kspace.points_list)
                n == calc.k_interpolation
            IN  /\ Len(calc.points) = IF m = 0 THEN 0 ELSE (m - 1) * n + m
                /\ n = 0 =>
                     \A e \in 1..m :
                       PointEq(calc.points[e], Vec3(calc.kspace.points_list[e]))
    /\ calc.op = "reference"
         => /\ Len(calc.kspace.points_list) = 2
            /\ calc.kspace.k_interpolation = 15
            /\ Len(calc.points) = 17

C13_Witness ==
    /\ calc.op = "explicit"
    /\ Len(calc.kspace.points_list) = 3
    /\ calc.k_interpolation = 2
    /\ Len(calc.points) = 7


RECURSIVE NumberOf(_)
NumberOf(digits) ==
    IF digits = <<>> THEN 0
    ELSE 10 * NumberOf(SubSeq(digits, 1, Len(digits) - 1))
         + (CHOOSE d \in 0..9 : DigitChar[d + 1] = digits[Len(digits)])

PositionsOf(code, form, name) ==
    {e \in 1..Len(code) : code[e].form = form /\ code[e].name = name}

Occurrences(list, x) == Cardinality({e \in 1..Len(list) : list[e] = x})

\* C14: when band numbers and k-vectors are both given, the run code holds
\* exactly one definition of member?, then one of output-bands-list with
\* the requested band numbers in the given order, then one of output-func
\* that calls each output function of the mode's list once, and after them
\* the only run directive, which applies output-func at the requested
\* k-vectors; when one of the lists is empty the run code holds no
\* definition and its run directive applies no function.
C14_GatedOutput ==
    calc.op = "runcode"
        => LET code == calc.runcode
               runs == {e \in 1..Len(code) : code[e].form = "run"}
               defs == {e \in 1..Len(code) : code[e].form = "define"}
           IN  /\ Cardinality(runs) = 1
               /\ IF calc.bandnums # <<>> /\ calc.kvecs # <<>>
                  THEN \E m \in PositionsOf(code, "define", "member?"),
                          l \in PositionsOf(code, "define", "output-bands-list"),
                          f \in PositionsOf(code, "define", "output-func"),
                          r \in runs :
                         /\ defs = {m, l, f}
                         /\ m < l /\ l < f /\ f < r
                         /\ Len(code[l].items) = Len(calc.bandnums)
                         /\ \A e \in 1..Len(calc.bandnums) :
                              NumberOf(code[l].items[e]) = calc.bandnums[e]
                         /\ \A e \in 1..Len(calc.outputfuncs) :
                              Occurrences(code[f].items, calc.outputfuncs[e]) = 1
                         /\ Len(code[f].items) = Len(calc.outputfuncs)
                         /\ code[r].name = calc.mode
                         /\ code[r].items = <<"output-func", calc.kvecs>>
                  ELSE /\ defs = {}
                       /\ \A r \in runs : code[r].items[1] # "output-func"

C14_Witness ==
    /\ calc.op = "runcode"
    /\ calc.bandnums = <<2, 4>>
    /\ Len(calc.kvecs) = 2
    /\ \E l \in PositionsOf(calc.runcode, "define", "output-bands-list") :
         calc.runcode[l].items = <<(<<"2">>), (<<"4">>)>>


HasSubstrate(geom) ==
    \E e \in 1..Len(geom.objects) : geom.objects[e].kind = "Substrate"

OffsetHalves(rod) ==
    LET r == IF rod.sqrt3 = "x" THEN rod.x ELSE rod.y IN (2 * r[1]) \div r[2]
LaneOf(rod) == IF rod.sqrt3 = "x" THEN rod.y ELSE rod.x

\* C16: the supercell size used is odd, the given one plus one when that
\* is even; with h its floored half the centre column holds one hole at
\* each integer offset of -h..h except 0, the other column one hole at
\* each c + 0.5, c in -h..h, and there is no other hole; every offset lies
\* in [-s/2, s/2] and no two holes are a multiple of s apart on one column.
C16_HoleLayout ==
    calc.op = "holes"
        => LET sz == calc.supercell_size
               h == sz \div 2
               holes == {e \in 1..Len(calc.objects) : calc.objects[e].kind = "Rod"}
               centre == {e \in holes : RatEq(LaneOf(calc.objects[e]), <<0, 1>>)}
               perimeter == {e \in holes : RatEq(LaneOf(calc.objects[e]), <<1, 2>>)}
               off(e) == OffsetHalves(calc.objects[e])
           IN  /\ sz % 2 = 1
               /\ sz = IF calc.given % 2 = 0 THEN calc.given + 1 ELSE calc.given
               /\ calc.sch = h
               /\ holes = centre \cup perimeter
               /\ {off(e) : e \in centre} = {2 * c : c \in (0 - h)..h} \ {0}
               /\ Cardinality(centre) = 2 * h
               /\ {off(e) : e \in perimeter} = {2 * c + 1 : c \in (0 - h)..h}
               /\ Cardinality(perimeter) = sz
               /\ \A e \in holes : 0 - sz <= off(e) /\ off(e) <= sz
               /\ \A e, f \in holes :
                    /\ e # f
                    /\ RatEq(LaneOf(calc.objects[e]), LaneOf(calc.objects[f]))
                    => (off(e) - off(f)) % (2 * sz) # 0

C16_Witness ==
    /\ calc.op = "holes"
    /\ calc.given = 4
    /\ calc.supercell_size = 5
    /\ Cardinality({e \in 1..Len(calc.objects) : calc.objects[e].kind = "Rod"}) = 9


IsMarker(file) == Len(file) >= 1 /\ Last(Last(file)) = "_ranges.csv"

\* C17: a marker file of the projected-bands folder that exists before a
\* step of a build still exists after it, whatever mode the build asks for.
C17_AppendOnly ==
    [][\A file \in repo_files : IsMarker(file) => file \in repo_files']_vars


\* the marker file a build in its loop looks for
MarkerSought(b) ==
    MarkerIn(ExpectedFolder(b.i, b.k_steps), b.mode)

\* C18: the step a waveguide build takes from its check of a k-value is
\* decided by the marker file alone: it calls the bulk recipe exactly when
\* the marker is missing, also while another build of the same material,
\* radius and mode is running the sub-simulation of that folder.
C18_Unsynchronized ==
    [][\A p \in Procs :
         /\ bld[p].pc = "loop"
         /\ bld[p].i <= Len(bld[p].k_points)
         /\ bld'[p] # bld[p]
         => (bld'[p].pc = "bulk" <=> MarkerSought(bld[p]) \notin repo_files)]_vars

\* both builds started on the empty repository, found the same marker
\* missing, cleared the same reference folder and are running its solver
C18_Witness ==
    /\ bld["A"].pc = "solving" /\ bld["B"].pc = "solving"
    /\ bld["A"].ctx = "sub" /\ bld["B"].ctx = "sub"
    /\ bld["A"].noneAtStart /\ bld["B"].noneAtStart
    /\ bld["A"].mode = bld["B"].mode
    /\ bld["A"].i = bld["B"].i
    /\ bld["A"].sim.workingdir = bld["B"].sim.workingdir
    /\ InProjectedBands(bld["A"].sim.workingdir)
    /\ MarkerSought(bld["A"]) \notin repo_files
    /\ \A p \in Procs :
         {Effect("clear", bld[p].sim.workingdir),
          Effect("solver", bld[p].sim.workingdir)} \subseteq bld[p].effects


\* C19: the Simulation the bulk recipe builds for the sub-simulation of a
\* k-value works in the folder, and under the job name, in which the
\* waveguide recipe looked for the marker, and once that sub-simulation has
\* run and been post-processed the marker looked for exists.
C19_SameKey ==
    \A p \in Procs :
      LET b == bld[p] IN
      b.ctx = "sub" /\ b.pc \in {"solving", "sub_ret"}
          => /\ b.sim.workingdir = ExpectedFolder(b.i, b.k_steps)
             /\ b.sim.jobname = Last(ExpectedFolder(b.i, b.k_steps))
             /\ b.pc = "sub_ret"
                /\ Effect("postprocess", b.sim.workingdir) \in b.effects
                => /\ MarkerSought(b) \in repo_files
                   /\ ~NeedsSimulation(repo_files, MarkerSought(b))

C19_Witness ==
    \E p \in Procs :
      /\ bld[p].ctx = "sub" /\ bld[p].pc = "sub_ret" /\ bld[p].ret = "sim"
      /\ bld[p].i = 2
      /\ bld[p].sim.workingdir = ExpectedFolder(2, 2)
      /\ Effect("postprocess", bld[p].sim.workingdir) \in bld[p].effects
      /\ MarkerSought(bld[p]) \in repo_files


\* a k-value in millionths, rounded to the nearest
NearestMicro(q) == (2 * q[1] * 1000000 + q[2]) \div (2 * q[2])

\* the i-th point of the waveguide's path has the i-th k-value along the
\* waveguide axis and zero elsewhere, and the i-th reference folder is the
\* one named after that k-value
PathMatchesReferences ==
    /\ Len(calc.points) = Len(calc.k_points)
    /\ Len(calc.project_bands_list) = Len(calc.k_points)
    /\ \A e \in 1..Len(calc.k_points) :
         LET axis == IF calc.ydirection THEN 2 ELSE 1
             point == calc.points[e]
         IN  /\ RatEq(point[axis], calc.k_points[e])
             /\ \A c \in (1..3) \ {axis} : RatEq(point[c], <<0, 1>>)
             /\ calc.project_bands_list[e] =
                  <<<<"..">>, <<"projected_bands_repo">>, ExpectedUnperturbed,
                    ExpectedUnperturbed \o <<"_projk">>
                        \o SixDigits(NearestMicro(point[axis]))>>

\* C20: for both recipes, both values of ydirection, a number of k-steps or
\* a list of k-values, the waveguide's path is the sampled k-values in
\* order, nothing in between, and the i-th reference folder is the one of
\* its i-th point.
C20_AnyKSteps ==
    calc.op = "waveguide_k" => ~calc.raised /\ PathMatchesReferences

\* what holds of the arguments the recipes take: a number of k-steps in
\* both recipes and a list of k-values in the slab recipe give a path that
\* matches the reference folders; the 2D recipe handed a list raises an
\* error before it samples anything
C20_PathOfAcceptedKSteps ==
    calc.op = "waveguide_k"
        => /\ calc.raised <=> (family = "2D" /\ calc.k_steps.kind = "list")
           /\ ~calc.raised => PathMatchesReferences

PathOfListReached ==
    /\ calc.op = "waveguide_k"
    /\ family = "3D"
    /\ calc.k_steps.kind = "list"
    /\ calc.k_steps.values = <<(<<1, 4>>), (<<0, 1>>)>>
    /\ calc.ydirection
    /\ Len(calc.points) = 2
    /\ RatEq(calc.points[1][2], <<1, 4>>)


\* the names of a joined list of names
SplitNames(joined) == SelectSeq(joined, LAMBDA t : t # " ")

\* the output functions a recipe is to use for a mode: TE for 'te' and
\* 'zeven', TM for 'tm' and 'zodd'
MatchingFuncs(mode) ==
    IF mode \in {"te", "zeven"} THEN output_funcs_te ELSE output_funcs_tm

\* the documented mode values of the waveguide recipes
DocumentedWaveguideModes == {"te", "tm"}

\* the output-func definitions of a waveguide run code all call funcs
GatesFuncs(code, funcs) ==
    \A e \in PositionsOf(code, "define", "output-func") : code[e].items = funcs

\* the run directive of every mode but '' of a bulk run code applies the
\* functions matching the mode
BulkRunsMatch ==
    \A e \in 1..Len(calc.runcode) :
      calc.runcode[e].form = "run" /\ calc.runcode[e].name # ""
          => SplitNames(calc.runcode[e].items[1])
                 = MatchingFuncs(calc.runcode[e].name)

\* C21: in all four recipes a documented mode selects the matching output
\* functions: the bulk recipes run 'te' and 'zeven' with the TE functions
\* and 'tm' and 'zodd' with the TM functions, and the waveguide recipes
\* called with 'te' select and gate the TE functions, with 'tm' the TM ones.
C21_MatchingOutputFuncs ==
    /\ calc.op = "bulk_runcode" => BulkRunsMatch
    /\ calc.op = "runcode" /\ calc.mode \in DocumentedWaveguideModes
         => /\ calc.outputfuncs = MatchingFuncs(calc.mode)
            /\ GatesFuncs(calc.runcode, MatchingFuncs(calc.mode))

\* what holds: the bulk recipes and TriHoles2D_Waveguide select the matching
\* functions, and so does TriHolesSlab3D_Waveguide for 'tm', 'zeven' and
\* 'zodd'; called with 'te' it selects and gates the TM functions
OutputFuncsButSlabTe ==
    /\ calc.op = "bulk_runcode" => BulkRunsMatch
    /\ calc.op = "runcode"
         => LET funcs == IF family = "3D" /\ calc.mode = "te"
                         THEN output_funcs_tm ELSE MatchingFuncs(calc.mode)
            IN  /\ calc.outputfuncs = funcs
                /\ GatesFuncs(calc.runcode, funcs)

\* TriHolesSlab3D_Waveguide with mode 'te' and field patterns requested:
\* its output-func calls the TM functions
SlabTeGatesTm ==
    /\ calc.op = "runcode" /\ family = "3D" /\ calc.mode = "te"
    /\ \E e \in PositionsOf(calc.runcode, "define", "output-func") :
         calc.runcode[e].items = output_funcs_tm

====
